---- MODULE Spec2Model ----
(***************************************************************************)
(* ORCA load report header parser (source/common/orca/orca_parser.cc).     *)
(*                                                                         *)
(* A string is a sequence of lexemes. A lexeme is either one delimiter     *)
(* character (",", ":", ".", " ", tab), one digit, or a word, which stands *)
(* for a run of characters holding no delimiter and no digit. Everything   *)
(* the parser does to a string (comma split, trim, colon split, prefix    *)
(* test, search of the first '.') cuts at delimiter characters only, so   *)
(* it is computed on lexemes exactly as the code computes it on chars.     *)
(* A double is modelled by its value in tenths (an integer).               *)
(***************************************************************************)
EXTENDS Integers, Sequences, FiniteSets, TLC

\* ------------------------------------------------------------ bounds
\* Most tokens a plain-text header set holds over all its occurrences.
MaxTokens == 2
\* Most physical occurrences of the plain-text header.
MaxOcc == 2
\* Most characters of a binary header value.
MaxBinLen == 4
\* Most calls of the metric assigner in a row, when it is driven alone.
MaxCalls == 2

\* ------------------------------------------------------------ strings
kEndpointLoadMetricsHeader == "x-endpoint-load-metrics"
kEndpointLoadMetricsHeaderBin == "x-endpoint-load-metrics-bin"
kEndpointLoadMetricsHeaderJson == "x-endpoint-load-metrics-json"

Digits == {"0", "1", "2", "5"}
DigitValue(c) == CASE c = "0" -> 0 [] c = "1" -> 1 [] c = "2" -> 2 [] c = "5" -> 5

\* absl::ascii_isspace, on the characters of the model
IsSpace(c) == c \in {" ", "\t"}

AllSpace(s) == \A k \in 1..Len(s) : IsSpace(s[k])

\* absl::StripAsciiWhitespace / StringUtil::trim
StripAsciiWhitespace(s) ==
    IF AllSpace(s) THEN << >>
    ELSE LET lo == CHOOSE k \in 1..Len(s) :
                       /\ ~IsSpace(s[k])
                       /\ \A j \in 1..(k - 1) : IsSpace(s[j])
             hi == CHOOSE k \in 1..Len(s) :
                       /\ ~IsSpace(s[k])
                       /\ \A j \in (k + 1)..Len(s) : IsSpace(s[j])
         IN SubSeq(s, lo, hi)

\* Position of the first occurrence of character c in s, 0 when absent
\* (string_view::find, with npos as 0).
Find(s, c) ==
    IF \E k \in 1..Len(s) : s[k] = c
    THEN CHOOSE k \in 1..Len(s) : s[k] = c /\ \A j \in 1..(k - 1) : s[j] # c
    ELSE 0

\* absl::StrSplit(s, c): every piece between two occurrences of c, the empty
\* ones included.
RECURSIVE StrSplit(_, _)
StrSplit(s, c) ==
    IF Find(s, c) = 0 THEN << s >>
    ELSE << SubSeq(s, 1, Find(s, c) - 1) >>
             \o StrSplit(SubSeq(s, Find(s, c) + 1, Len(s)), c)

\* Envoy::Http::HeaderUtility::parseCommaDelimitedHeader: split on commas,
\* trim each token, skip the empty ones.
RECURSIVE KeepNonEmptyTrimmed(_)
KeepNonEmptyTrimmed(pieces) ==
    IF pieces = << >> THEN << >>
    ELSE LET token == StripAsciiWhitespace(Head(pieces))
         IN (IF token = << >> THEN << >> ELSE << token >>)
                \o KeepNonEmptyTrimmed(Tail(pieces))

HeaderUtilityParseCommaDelimitedHeader(header_value) ==
    KeepNonEmptyTrimmed(StrSplit(header_value, ","))

\* parseCommaDelimitedHeader(entry): the tokens of every occurrence, in order.
RECURSIVE parseCommaDelimitedHeader(_)
parseCommaDelimitedHeader(entry) ==
    IF entry = << >> THEN << >>
    ELSE HeaderUtilityParseCommaDelimitedHeader(Head(entry))
             \o parseCommaDelimitedHeader(Tail(entry))

\* absl::SkipWhitespace: the predicate keeps a piece unless it is empty or
\* holds whitespace only. It filters pieces; it does not trim them.
SkipWhitespace(piece) == ~AllSpace(piece)

\* absl::MaxSplits(':', 1): at most one split, at the first ':'.
MaxSplitsColon1(value) ==
    IF Find(value, ":") = 0 THEN << value >>
    ELSE << SubSeq(value, 1, Find(value, ":") - 1),
            SubSeq(value, Find(value, ":") + 1, Len(value)) >>

\* SplitEntry as it would be if each half were trimmed.
SplitEntryTrimmed(value) ==
    LET kept == SelectSeq(MaxSplitsColon1(value), SkipWhitespace)
    IN [first  |-> IF Len(kept) >= 1 THEN StripAsciiWhitespace(kept[1]) ELSE << >>,
        second |-> IF Len(kept) >= 2 THEN StripAsciiWhitespace(kept[2]) ELSE << >>]

\* std::pair<string_view, string_view> entry = absl::StrSplit(value,
\*     absl::MaxSplits(':', 1), absl::SkipWhitespace());
\* the pair takes the first two kept pieces, a missing one being empty.
SplitEntry(value) ==
    LET kept == SelectSeq(MaxSplitsColon1(value), SkipWhitespace)
    IN [first  |-> IF Len(kept) >= 1 THEN kept[1] ELSE << >>,
        second |-> IF Len(kept) >= 2 THEN kept[2] ELSE << >>]

\* strings::safe_strtod: leading and trailing whitespace is skipped, the rest
\* must be a number in full: digits, then optionally '.' and one digit.
\* The value is in tenths.
RECURSIVE DigitsValue(_)
DigitsValue(s) ==
    IF s = << >> THEN 0 ELSE 10 * DigitsValue(SubSeq(s, 1, Len(s) - 1)) + DigitValue(s[Len(s)])

IsDigits(s) == s # << >> /\ \A k \in 1..Len(s) : s[k] \in Digits

safe_strtod(metric_value) ==
    LET body == StripAsciiWhitespace(metric_value)
        dot == Find(body, ".")
    IN IF IsDigits(body) THEN [ok |-> TRUE, value |-> 10 * DigitsValue(body)]
       ELSE IF /\ dot > 1
               /\ Len(body) = dot + 1
               /\ IsDigits(SubSeq(body, 1, dot - 1))
               /\ body[Len(body)] \in Digits
       THEN [ok |-> TRUE,
             value |-> 10 * DigitsValue(SubSeq(body, 1, dot - 1)) + DigitValue(body[Len(body)])]
       ELSE [ok |-> FALSE, value |-> 0]

\* ------------------------------------------------------------ status
\* absl::Status: a code and the message the code builds at that place.
OkStatus == [code |-> "Ok", message |-> ""]
InvalidArgumentError(m) == [code |-> "InvalidArgument", message |-> m]
AlreadyExistsError(m) == [code |-> "AlreadyExists", message |-> m]
NotFoundError(m) == [code |-> "NotFound", message |-> m]

\* ------------------------------------------------------------ report
FixedFields ==
    {"cpu_utilization", "mem_utilization", "application_utilization", "eps", "rps_fractional"}

EmptyMap == [k \in {} |-> 0]

\* OrcaLoadReport load_report; (a fresh message: every field at its default)
DefaultReport ==
    [cpu_utilization |-> 0, mem_utilization |-> 0, application_utilization |-> 0,
     eps |-> 0, rps_fractional |-> 0, named_metrics |-> EmptyMap]

\* The value a failed StatusOr holds in place of a report.
NoReport == [absent |-> TRUE]

\* mutable_named_metrics()->try_emplace(metric_name, metric_value)
TryEmplace(map, key, value) ==
    IF key \in DOMAIN map
    THEN [inserted |-> FALSE, map |-> map]
    ELSE [inserted |-> TRUE,
          map |-> [k \in DOMAIN map \cup {key} |-> IF k = key THEN value ELSE map[k]]]

tryCopyNamedMetricToOrcaLoadReport(metric_name, metric_value, orca_load_report) ==
    IF metric_name = << >>
    THEN [status |-> InvalidArgumentError("named metric key is empty."),
          report |-> orca_load_report]
    ELSE LET e == TryEmplace(orca_load_report.named_metrics, metric_name, metric_value)
         IN IF ~e.inserted
            THEN [status |-> AlreadyExistsError("contains duplicate named metric"),
                  report |-> orca_load_report]
            ELSE [status |-> OkStatus,
                  report |-> [orca_load_report EXCEPT !.named_metrics = e.map]]

\* StartsWithNamedMetrics as it would be if the prefix tested had no '.'.
StartsWithNamedMetricsNoDot(metric_name) ==
    /\ Len(metric_name) >= 1
    /\ metric_name[1] = "named_metrics"

\* metric_name.starts_with("named_metrics.")
StartsWithNamedMetrics(metric_name) ==
    /\ Len(metric_name) >= 2
    /\ metric_name[1] = "named_metrics"
    /\ metric_name[2] = "."

\* WithoutPrefix as it would be if the substring began at the '.'.
WithoutPrefixKeepsDot(metric_name) ==
    SubSeq(metric_name, Find(metric_name, "."), Len(metric_name))

\* metric_name.substr(metric_name.find('.') + 1)
WithoutPrefix(metric_name) ==
    SubSeq(metric_name, Find(metric_name, ".") + 1, Len(metric_name))

\* The if / else if chain over the five fixed names.
SetFixedField(metric_name, value, orca_load_report) ==
    IF metric_name = << "cpu_utilization" >>
    THEN [status |-> OkStatus, report |-> [orca_load_report EXCEPT !.cpu_utilization = value]]
    ELSE IF metric_name = << "mem_utilization" >>
    THEN [status |-> OkStatus, report |-> [orca_load_report EXCEPT !.mem_utilization = value]]
    ELSE IF metric_name = << "application_utilization" >>
    THEN [status |-> OkStatus,
          report |-> [orca_load_report EXCEPT !.application_utilization = value]]
    ELSE IF metric_name = << "eps" >>
    THEN [status |-> OkStatus, report |-> [orca_load_report EXCEPT !.eps = value]]
    ELSE IF metric_name = << "rps_fractional" >>
    THEN [status |-> OkStatus, report |-> [orca_load_report EXCEPT !.rps_fractional = value]]
    ELSE [status |-> InvalidArgumentError("unsupported metric name"),
          report |-> orca_load_report]

tryCopyMetricToOrcaLoadReport(metric_name, metric_value, orca_load_report) ==
    IF metric_name = << >>
    THEN [status |-> InvalidArgumentError("metric names cannot be empty strings"),
          report |-> orca_load_report]
    ELSE IF metric_value = << >>
    THEN [status |-> InvalidArgumentError("metric values cannot be empty strings"),
          report |-> orca_load_report]
    ELSE IF ~safe_strtod(metric_value).ok
    THEN [status |-> InvalidArgumentError("unable to parse custom backend load metric value"),
          report |-> orca_load_report]
    ELSE IF StartsWithNamedMetrics(metric_name)
    THEN tryCopyNamedMetricToOrcaLoadReport(WithoutPrefix(metric_name),
                                            safe_strtod(metric_value).value, orca_load_report)
    ELSE SetFixedField(metric_name, safe_strtod(metric_value).value, orca_load_report)

\* ------------------------------------------------------------ JSON codec
\* Envoy::Protobuf::util::JsonStringToMessage with ignore_unknown_fields =
\* false, on the documents of the model: "{}" and "{<name>:<number>}".
JsonStringToMessage(json_string, report) ==
    IF json_string = << "{", "}" >>
    THEN [status |-> OkStatus, report |-> report]
    ELSE IF /\ Len(json_string) >= 5
            /\ json_string[1] = "{"
            /\ json_string[3] = ":"
            /\ json_string[Len(json_string)] = "}"
            /\ json_string[2] \in FixedFields
            /\ safe_strtod(SubSeq(json_string, 4, Len(json_string) - 1)).ok
    THEN SetFixedField(<< json_string[2] >>,
                       safe_strtod(SubSeq(json_string, 4, Len(json_string) - 1)).value, report)
    ELSE [status |-> InvalidArgumentError("json parse error"), report |-> report]

\* ------------------------------------------------------------ binary codec
\* The base64 alphabet of the model: the character at position k stands for
\* the byte k - 1.
Base64Chars == << "A", "B", "C", "D" >>

IsBase64(s) == \A k \in 1..Len(s) : \E b \in 1..Len(Base64Chars) : Base64Chars[b] = s[k]

Base64Encode(bytes) == [k \in 1..Len(bytes) |-> Base64Chars[bytes[k] + 1]]

\* Envoy::Base64::decode: the bytes of a well-formed input, and the empty
\* string for an input that is not base64.
Base64Decode(input) ==
    IF IsBase64(input)
    THEN [k \in 1..Len(input) |->
             (CHOOSE b \in 1..Len(Base64Chars) : Base64Chars[b] = input[k]) - 1]
    ELSE << >>

\* The wire format of the model: a sequence of (tag, value) byte pairs. Tag 1
\* is cpu_utilization, tag 2 is mem_utilization, tag 3 an unknown field (it is
\* skipped), tag 0 is illegal; a value byte v is the double v. A field left
\* at its default is not written. The empty string is the default message.
RECURSIVE ParseFromString(_, _)
ParseFromString(data, report) ==
    IF data = << >> THEN [ok |-> TRUE, report |-> report]
    ELSE IF Len(data) = 1 \/ data[1] = 0 THEN [ok |-> FALSE, report |-> report]
    ELSE ParseFromString(SubSeq(data, 3, Len(data)),
             IF data[1] = 1 THEN [report EXCEPT !.cpu_utilization = 10 * data[2]]
             ELSE IF data[1] = 2 THEN [report EXCEPT !.mem_utilization = 10 * data[2]]
             ELSE report)

SerializeAsString(report) ==
    (IF report.cpu_utilization = 0 THEN << >> ELSE << 1, report.cpu_utilization \div 10 >>)
        \o (IF report.mem_utilization = 0 THEN << >> ELSE << 2, report.mem_utilization \div 10 >>)

\* The reports the wire format of the model can carry.
WireReports ==
    {[DefaultReport EXCEPT !.cpu_utilization = 10 * c, !.mem_utilization = 10 * m] :
        c \in 0..(Len(Base64Chars) - 1), m \in 0..(Len(Base64Chars) - 1)}

\* ------------------------------------------------------------ inputs
Name(word) == << word >>
NamedMetric(key) == << "named_metrics", "." >> \o key
Tok(name, value) == name \o << ":" >> \o value

\* The tokens a plain-text header is written from: well-formed ones, and one
\* of each malformed shape.
RawTokens ==
    { Tok(Name("cpu_utilization"), << "1" >>),
      Tok(Name("mem_utilization"), << "0", ".", "5" >>),
      Tok(Name("application_utilization"), << "2" >>),
      << " " >> \o Tok(Name("rps_fractional"), << "1" >>) \o << " " >>,
      Tok(NamedMetric(<< "foo" >>), << "1" >>),
      Tok(NamedMetric(<< "bar" >>), << "2" >>),
      Tok(NamedMetric(<< >>), << "1" >>),
      Tok(Name("unknown_field"), << "1" >>),
      Tok(Name("cpu_utilization"), << "x" >>),
      Tok(Name("cpu_utilization"), << "1", ":", "2" >>),
      Tok(Name("cpu_utilization"), << >>),
      Tok(<< >>, << "1" >>),
      Tok(<< "cpu_utilization", " " >>, << "1" >>),
      Tok(Name("cpu_utilization"), << " ", "1" >>),
      Tok(<< "cpu_utilization", "\t" >>, << "\t", "1" >>),
      Tok(NamedMetric(<< "foo", " " >>), << "1" >>),
      << " " >>,
      << >> }

TokenLists == UNION {[1..n -> RawTokens] : n \in 0..MaxTokens}

\* The tokens written with commas between them.
RECURSIVE Join(_)
Join(tokens) ==
    IF tokens = << >> THEN << >>
    ELSE IF Len(tokens) = 1 THEN tokens[1]
    ELSE tokens[1] \o << "," >> \o Join(Tail(tokens))

\* The ways to cut a list of n tokens into k occurrences: c[j] tokens lie in
\* the first j occurrences, for j < k.
Cuts(n, k) ==
    {c \in [1..(k - 1) -> 0..n] : \A j \in 2..(k - 1) : c[j - 1] <= c[j]}

\* HeaderMap::GetResult of the plain-text key: one string per occurrence,
\* the tokens ts written in k occurrences cut at c.
NativeHeader(ts, k, c) ==
    [j \in 1..k |->
        Join(SubSeq(ts, (IF j = 1 THEN 0 ELSE c[j - 1]) + 1,
                        IF j = k THEN Len(ts) ELSE c[j]))]

JsonInputs ==
    { << "{", "}" >>,
      << "{", "cpu_utilization", ":", "1", "}" >>,
      << "{", "eps", ":", "0", ".", "5", "}" >>,
      << "{", "unknown_field", ":", "1", "}" >>,
      << "{", "cpu_utilization", ":", "x", "}" >>,
      << "{" >>,
      << >> }

BinChars == {Base64Chars[b] : b \in 1..Len(Base64Chars)} \cup {"!"}

BinInputs == UNION {[1..n -> BinChars] : n \in 0..MaxBinLen}

Absent == << >>

\* A header map with any subset of the three keys, over a valid, a malformed
\* and an empty value of each.
MixedHeaderMaps ==
    [native : {Absent, << Tok(Name("eps"), << "1" >>) >>, << Name("eps") >>, << << >> >>},
     json : {Absent, << << "{", "}" >> >>, << << "{" >> >>, << << >> >>},
     bin : {Absent, << << "B", "B" >> >>, << << "!" >> >>, << << >> >>}]

\* ------------------------------------------------------------ parser
\* NoneFound as it would be if the binary key were not looked at.
NoneFoundIgnoresBin(h) == h.native = << >> /\ h.json = << >>

\* load_metrics_native_http.empty() && load_metrics_json.empty() &&
\* load_metrics_bin.empty()
NoneFound(h) == h.native = << >> /\ h.json = << >> /\ h.bin = << >>

\* MoreThanOne as it would be without the JSON and binary pair.
MoreThanOneNativeOnly(h) ==
    \/ (h.native # << >> /\ h.json # << >>)
    \/ (h.native # << >> /\ h.bin # << >>)

MoreThanOne(h) ==
    \/ (h.native # << >> /\ h.json # << >>)
    \/ (h.native # << >> /\ h.bin # << >>)
    \/ (h.json # << >> /\ h.bin # << >>)

\* ReturnIfError as it would be if the status were dropped.
ReturnIfErrorNever(status) == FALSE

\* RETURN_IF_ERROR(expr): return the status when it is not OK.
ReturnIfError(status) == status.code # "Ok"

\* DuplicateMetric as it would be without the check.
DuplicateMetricNever(names, name) == FALSE

\* metric_names.contains(entry.first)
DuplicateMetric(names, name) == name \in names

\* InsertMetricName as it would be without the insertion.
InsertMetricNameForgotten(names, name) == names

\* metric_names.insert(entry.first)
InsertMetricName(names, name) == names \cup {name}

\* HeaderEmpty as it would be if a header without a token counted as empty.
HeaderEmptyOrNoToken(header) == parseCommaDelimitedHeader(header) = << >>

\* if (header.empty()) in tryParseNativeHttpEncoded
HeaderEmpty(header) == header = << >>

\* One pass of the loop of tryParseNativeHttpEncoded on token value: the
\* status (the loop returns it unless OK), the report and the name set after
\* it, and whether tryCopyMetricToOrcaLoadReport was called.
LoopPass(value, names, report) ==
    LET entry == SplitEntry(value)
        r == tryCopyMetricToOrcaLoadReport(entry.first, entry.second, report)
    IN IF DuplicateMetric(names, entry.first)
       THEN [status |-> AlreadyExistsError("contains duplicate metric"),
             report |-> report, names |-> names, called |-> FALSE, returns |-> TRUE]
       ELSE IF ReturnIfError(r.status)
       THEN [status |-> r.status, report |-> r.report, names |-> names,
             called |-> TRUE, returns |-> TRUE]
       ELSE [status |-> r.status, report |-> r.report,
             names |-> InsertMetricName(names, entry.first),
             called |-> TRUE, returns |-> FALSE]

\* The loop of tryParseNativeHttpEncoded from token k + 1 on.
RECURSIVE NativeLoop(_, _, _, _)
NativeLoop(vals, k, names, report) ==
    IF k = Len(vals) THEN [status |-> OkStatus, report |-> report]
    ELSE LET p == LoopPass(vals[k + 1], names, report)
         IN IF p.returns THEN [status |-> p.status, report |-> p.report]
            ELSE NativeLoop(vals, k + 1, p.names, p.report)

tryParseNativeHttpEncoded(header, orca_load_report) ==
    IF HeaderEmpty(header)
    THEN [status |-> InvalidArgumentError("header is empty."), report |-> orca_load_report]
    ELSE NativeLoop(parseCommaDelimitedHeader(header), 0, {}, orca_load_report)

\* ------------------------------------------------------------ state
VARIABLES
    headers,       \* the header map: the occurrences of each of the three keys
    pc,            \* the place parseOrcaLoadReportHeaders has reached
    load_report,   \* OrcaLoadReport load_report
    values,        \* the tokens of the plain-text header
    idx,           \* tokens of values the loop has examined
    metric_names,  \* flat_hash_set<string_view> metric_names
    calls,         \* calls of tryCopyMetricToOrcaLoadReport so far
    call,          \* the last of these calls: arguments, report before, result
    written,       \* the names whose call returned OkStatus, in order
    decoders,      \* the decoder paths entered
    result         \* the StatusOr returned: a status, and a report when Ok

vars ==
    << headers, pc, load_report, values, idx, metric_names, calls, call,
       written, decoders, result >>

\* The values of call and result before there is a call (calls = 0) and a
\* result (pc # "done").
NoCall ==
    [name |-> << >>, value |-> << >>, before |-> DefaultReport,
     status |-> OkStatus, after |-> DefaultReport]
NoResult == [status |-> [code |-> "none", message |-> ""], report |-> NoReport]

Failure(status) == [status |-> status, report |-> NoReport]
Success(report) == [status |-> OkStatus, report |-> report]

\* The whole call as a function of the header map.
parseOrcaLoadReportHeaders(h) ==
    IF NoneFound(h) THEN Failure(NotFoundError("no ORCA data sent from the backend"))
    ELSE IF MoreThanOne(h)
    THEN Failure(InvalidArgumentError("more than one ORCA header found"))
    ELSE LET n == IF h.native # << >> THEN tryParseNativeHttpEncoded(h.native, DefaultReport)
                  ELSE [status |-> OkStatus, report |-> DefaultReport]
             j == IF h.json # << >> THEN JsonStringToMessage(h.json[1], n.report)
                  ELSE [status |-> OkStatus, report |-> n.report]
             b == IF h.bin # << >> THEN ParseFromString(Base64Decode(h.bin[1]), j.report)
                  ELSE [ok |-> TRUE, report |-> j.report]
         IN IF ReturnIfError(n.status) THEN Failure(n.status)
            ELSE IF ReturnIfError(j.status) THEN Failure(j.status)
            ELSE IF ~b.ok
            THEN Failure(InvalidArgumentError("unable to parse binaryheader to OrcaLoadReport"))
            ELSE Success(b.report)

\* The header map of the call: one key alone, over all the values of that
\* key, or one of MixedHeaderMaps.
Init ==
    /\ \/ \E ts \in TokenLists, k \in 1..MaxOcc : \E c \in Cuts(Len(ts), k) :
             headers = [native |-> NativeHeader(ts, k, c), json |-> Absent, bin |-> Absent]
       \/ \E j \in JsonInputs : headers = [native |-> Absent, json |-> << j >>, bin |-> Absent]
       \/ \E b \in BinInputs : headers = [native |-> Absent, json |-> Absent, bin |-> << b >>]
       \/ headers \in MixedHeaderMaps
    /\ pc = "lookup"
    /\ load_report = DefaultReport
    /\ values = << >>
    /\ idx = 0
    /\ metric_names = {}
    /\ calls = 0
    /\ call = NoCall
    /\ written = << >>
    /\ decoders = {}
    /\ result = NoResult

Finish(r) ==
    /\ result' = r
    /\ pc' = "done"

ReturnNotFound ==
    /\ pc = "lookup"
    /\ NoneFound(headers)
    /\ Finish(Failure(NotFoundError("no ORCA data sent from the backend")))
    /\ UNCHANGED << headers, load_report, values, idx, metric_names, calls, call,
                    written, decoders >>

ReturnMoreThanOne ==
    /\ pc = "lookup"
    /\ ~NoneFound(headers)
    /\ MoreThanOne(headers)
    /\ Finish(Failure(InvalidArgumentError("more than one ORCA header found")))
    /\ UNCHANGED << headers, load_report, values, idx, metric_names, calls, call,
                    written, decoders >>

Selected ==
    /\ pc = "lookup"
    /\ ~NoneFound(headers)
    /\ ~MoreThanOne(headers)
    /\ pc' = "native"
    /\ UNCHANGED << headers, load_report, values, idx, metric_names, calls, call,
                    written, decoders, result >>

\* tryParseNativeHttpEncoded, up to its loop
NativeEnter ==
    /\ pc = "native"
    /\ headers.native # << >>
    /\ decoders' = decoders \cup {"native"}
    /\ IF HeaderEmpty(headers.native)
       THEN /\ Finish(Failure(InvalidArgumentError("header is empty.")))
            /\ UNCHANGED values
       ELSE /\ values' = parseCommaDelimitedHeader(headers.native)
            /\ pc' = "loop"
            /\ UNCHANGED result
    /\ UNCHANGED << headers, load_report, idx, metric_names, calls, call, written >>

NativeSkip ==
    /\ pc = "native"
    /\ headers.native = << >>
    /\ pc' = "json"
    /\ UNCHANGED << headers, load_report, values, idx, metric_names, calls, call,
                    written, decoders, result >>

\* One pass of the loop of tryParseNativeHttpEncoded
NativeToken ==
    /\ pc = "loop"
    /\ idx < Len(values)
    /\ idx' = idx + 1
    /\ LET entry == SplitEntry(values[idx + 1])
           p == LoopPass(values[idx + 1], metric_names, load_report)
       IN /\ load_report' = p.report
          /\ metric_names' = p.names
          /\ IF p.called
             THEN /\ calls' = calls + 1
                  /\ call' = [name |-> entry.first, value |-> entry.second,
                              before |-> load_report, status |-> p.status,
                              after |-> p.report]
                  /\ written' = IF p.status.code = "Ok" THEN Append(written, entry.first)
                                ELSE written
             ELSE UNCHANGED << calls, call, written >>
          /\ IF p.returns
             THEN Finish(Failure(p.status))
             ELSE UNCHANGED << pc, result >>
    /\ UNCHANGED << headers, values, decoders >>

NativeDone ==
    /\ pc = "loop"
    /\ idx = Len(values)
    /\ pc' = "json"
    /\ UNCHANGED << headers, load_report, values, idx, metric_names, calls, call,
                    written, decoders, result >>

JsonDecode ==
    /\ pc = "json"
    /\ headers.json # << >>
    /\ decoders' = decoders \cup {"json"}
    /\ LET r == JsonStringToMessage(headers.json[1], load_report)
       IN /\ load_report' = r.report
          /\ IF ReturnIfError(r.status)
             THEN Finish(Failure(r.status))
             ELSE pc' = "bin" /\ UNCHANGED result
    /\ UNCHANGED << headers, values, idx, metric_names, calls, call, written >>

JsonSkip ==
    /\ pc = "json"
    /\ headers.json = << >>
    /\ pc' = "bin"
    /\ UNCHANGED << headers, load_report, values, idx, metric_names, calls, call,
                    written, decoders, result >>

BinDecode ==
    /\ pc = "bin"
    /\ headers.bin # << >>
    /\ decoders' = decoders \cup {"bin"}
    /\ LET header_value == headers.bin[1]
           decoded_value == Base64Decode(header_value)
           r == ParseFromString(decoded_value, load_report)
       IN /\ load_report' = r.report
          /\ IF ~r.ok
             THEN Finish(Failure(InvalidArgumentError(
                      "unable to parse binaryheader to OrcaLoadReport")))
             ELSE pc' = "return" /\ UNCHANGED result
    /\ UNCHANGED << headers, values, idx, metric_names, calls, call, written >>

BinSkip ==
    /\ pc = "bin"
    /\ headers.bin = << >>
    /\ pc' = "return"
    /\ UNCHANGED << headers, load_report, values, idx, metric_names, calls, call,
                    written, decoders, result >>

\* return load_report;
ReturnReport ==
    /\ pc = "return"
    /\ Finish(Success(load_report))
    /\ UNCHANGED << headers, load_report, values, idx, metric_names, calls, call,
                    written, decoders >>

Next ==
    \/ ReturnNotFound
    \/ ReturnMoreThanOne
    \/ Selected
    \/ NativeEnter
    \/ NativeSkip
    \/ NativeToken
    \/ NativeDone
    \/ JsonDecode
    \/ JsonSkip
    \/ BinDecode
    \/ BinSkip
    \/ ReturnReport

Spec == Init /\ [][Next]_vars

\* ------------------------------------------------------------ the assigner alone
\* tryCopyMetricToOrcaLoadReport driven directly: any name and value string,
\* on the report the calls before it left.
AssignNames ==
    { Name("cpu_utilization"), Name("mem_utilization"), Name("application_utilization"),
      Name("eps"), Name("rps_fractional"),
      NamedMetric(<< "foo" >>), NamedMetric(<< "foo", ".", "bar" >>), NamedMetric(<< >>),
      Name("named_metrics"), << "named_metrics", "x" >>, Name("unknown_field"),
      << "cpu_utilization", "x" >>, << "x", "cpu_utilization" >>, << "cpu_utilization", " " >>,
      << >> }

AssignValues == { << "1" >>, << "2", ".", "5" >>, << "x" >>, << >> }

InitAssign ==
    /\ headers = [native |-> Absent, json |-> Absent, bin |-> Absent]
    /\ pc = "assigner"
    /\ load_report = DefaultReport
    /\ values = << >>
    /\ idx = 0
    /\ metric_names = {}
    /\ calls = 0
    /\ call = NoCall
    /\ written = << >>
    /\ decoders = {}
    /\ result = NoResult

AssignerCall ==
    /\ pc = "assigner"
    /\ calls < MaxCalls
    /\ \E n \in AssignNames, v \in AssignValues :
          LET r == tryCopyMetricToOrcaLoadReport(n, v, load_report)
          IN /\ call' = [name |-> n, value |-> v, before |-> load_report,
                         status |-> r.status, after |-> r.report]
             /\ load_report' = r.report
             /\ written' = IF r.status.code = "Ok" THEN Append(written, n) ELSE written
    /\ calls' = calls + 1
    /\ UNCHANGED << headers, pc, values, idx, metric_names, decoders, result >>

NextAssign == AssignerCall

SpecAssign == InitAssign /\ [][NextAssign]_vars

\* ------------------------------------------------------------ properties
\* The keys of the header map that are present.
Present(h) == {k \in {"native", "json", "bin"} : h[k] # << >>}

OnlyNative == Present(headers) = {"native"}

\* The text of a token before its first colon, and after it.
RawName(t) == SubSeq(t, 1, Find(t, ":") - 1)
RawValue(t) == SubSeq(t, Find(t, ":") + 1, Len(t))

IsNumber(v) == safe_strtod(v).ok
NumberOf(v) == safe_strtod(v).value

IsFixedName(n) == Len(n) = 1 /\ n[1] \in FixedFields
IsNamedName(n) == Len(n) >= 3 /\ n[1] = "named_metrics" /\ n[2] = "."
KeyOf(n) == SubSeq(n, 3, Len(n))

\* The name the decode uses for a token.
TokenName(t) == SplitEntry(t).first

\* C1: when at least two of the three keys are present, whatever their
\* values, the call returns InvalidArgument and no decoder path is entered:
\* no token is examined, the assigner is not called, the report is untouched.
C1_AmbiguityIsInvalidArgument ==
    Cardinality(Present(headers)) >= 2 =>
        /\ pc \in {"lookup", "done"}
        /\ decoders = {}
        /\ idx = 0 /\ calls = 0 /\ load_report = DefaultReport
        /\ pc = "done" =>
              result.status.code = "InvalidArgument" /\ result.report = NoReport

\* All three keys present, the plain-text and the binary value valid ones.
C1_Witness ==
    /\ pc = "done"
    /\ Present(headers) = {"native", "json", "bin"}
    /\ headers.native = << Tok(Name("eps"), << "1" >>) >>
    /\ headers.bin = << << "B", "B" >> >>
    /\ result.status.code = "InvalidArgument"

\* C2: the call returns NotFound when none of the three keys is present, and
\* in no other case: with a key present it returns a report, InvalidArgument
\* or AlreadyExists.
C2_NotFoundIffNoKey ==
    pc = "done" =>
        /\ (Present(headers) = {}) <=> (result.status.code = "NotFound")
        /\ Present(headers) # {} =>
              result.status.code \in {"Ok", "InvalidArgument", "AlreadyExists"}
        /\ (result.status.code = "Ok") <=> (result.report # NoReport)

C2_Witness ==
    /\ pc = "done"
    /\ Present(headers) = {}
    /\ result.status.code = "NotFound"

\* The reference report of a stream of well-formed tokens with distinct names.
WellFormedToken(t) ==
    /\ Find(t, ":") > 0
    /\ IsFixedName(RawName(t)) \/ IsNamedName(RawName(t))
    /\ IsNumber(RawValue(t))

WellFormedStream(ts) ==
    /\ \A k \in 1..Len(ts) : WellFormedToken(ts[k])
    /\ \A j, k \in 1..Len(ts) : j < k => RawName(ts[j]) # RawName(ts[k])

RefField(ts, f) ==
    IF \E k \in 1..Len(ts) : RawName(ts[k]) = << f >>
    THEN NumberOf(RawValue(ts[CHOOSE k \in 1..Len(ts) : RawName(ts[k]) = << f >>]))
    ELSE 0

RefReport(ts) ==
    [cpu_utilization |-> RefField(ts, "cpu_utilization"),
     mem_utilization |-> RefField(ts, "mem_utilization"),
     application_utilization |-> RefField(ts, "application_utilization"),
     eps |-> RefField(ts, "eps"),
     rps_fractional |-> RefField(ts, "rps_fractional"),
     named_metrics |->
         [key \in {KeyOf(RawName(ts[k])) : k \in {j \in 1..Len(ts) : IsNamedName(RawName(ts[j]))}} |->
             NumberOf(RawValue(ts[CHOOSE k \in 1..Len(ts) :
                 IsNamedName(RawName(ts[k])) /\ KeyOf(RawName(ts[k])) = key]))]]

\* C3: with the plain-text key alone and its tokens well-formed name:value
\* pairs of pairwise distinct names, the call succeeds and the report is the
\* reference: each fixed field named holds its token's value, the others are
\* 0, named_metrics holds one entry per named_metrics.<key> token, keyed by
\* <key>, and nothing else.
C3_PlainTextReport ==
    (pc = "done" /\ OnlyNative /\ WellFormedStream(values)) =>
        result = Success(RefReport(values))

\* Two tokens in two occurrences, a fixed field and a named metric.
C3_Witness ==
    /\ pc = "done"
    /\ OnlyNative
    /\ Len(headers.native) = 2
    /\ Len(values) = 2
    /\ WellFormedStream(values)
    /\ \E k \in 1..2 : IsFixedName(RawName(values[k]))
    /\ \E k \in 1..2 : IsNamedName(RawName(values[k]))
    /\ result.status.code = "Ok"

\* Token idx repeats the name of a token before it.
RepeatsName(ts, k) == \E j \in 1..(k - 1) : TokenName(ts[j]) = TokenName(ts[k])

\* C4: a token whose name is the name of an earlier token of the decode (all
\* earlier tokens accepted) fails the decode with AlreadyExists whatever its
\* value; the assigner is not called for it, and no name is written twice.
C4_DuplicateNameIsAlreadyExists ==
    /\ \A a, b \in 1..Len(written) : a < b => written[a] # written[b]
    /\ (idx >= 2 /\ RepeatsName(values, idx)) =>
          /\ pc = "done"
          /\ result.status.code = "AlreadyExists" /\ result.report = NoReport
          /\ calls = idx - 1
          /\ call.after = load_report

\* The repeated name stands in another occurrence, with an unparsable value.
C4_Witness ==
    /\ pc = "done"
    /\ Len(headers.native) = 2
    /\ idx = 2
    /\ RepeatsName(values, 2)
    /\ ~IsNumber(SplitEntry(values[2]).second)
    /\ result.status.code = "AlreadyExists"

\* C5, as stated: a token with whitespace around its colon, its trimmed name
\* valid and its trimmed value a number, decodes to the report of the token
\* written without that whitespace, and the name used is the trimmed name.
C5_TrimmedHalves ==
    (/\ pc = "done"
     /\ OnlyNative
     /\ Len(values) = 1
     /\ Find(values[1], ":") > 0
     /\ LET n == StripAsciiWhitespace(RawName(values[1]))
        IN IsFixedName(n) \/ IsNamedName(n)
     /\ IsNumber(StripAsciiWhitespace(RawValue(values[1])))) =>
        /\ calls > 0
        /\ call.name = StripAsciiWhitespace(RawName(values[1]))
        /\ result = parseOrcaLoadReportHeaders(
               [native |-> << Tok(StripAsciiWhitespace(RawName(values[1])),
                                  StripAsciiWhitespace(RawValue(values[1]))) >>,
                json |-> Absent, bin |-> Absent])

\* C5, amended: a token is split at its first colon only and the halves are
\* used as written, not trimmed: the name looked up in metric_names and given
\* to the assigner is the text before the colon, the value the text after it.
\* Whitespace after the colon is skipped by the number parser, so "n: v"
\* decodes as "n:v"; whitespace before the colon stays in the name, so a fixed
\* field name followed by whitespace fails with InvalidArgument (unsupported
\* metric name) and a named metric keeps the whitespace in its key.
C5_HalvesAsWritten ==
    /\ (/\ idx >= 1
        /\ calls = idx
        /\ Find(values[idx], ":") > 1
        /\ ~AllSpace(RawName(values[idx]))
        /\ ~AllSpace(RawValue(values[idx]))) =>
           /\ call.name = RawName(values[idx])
           /\ call.value = RawValue(values[idx])
    /\ (/\ pc = "done"
        /\ OnlyNative
        /\ Len(values) = 1
        /\ Find(values[1], ":") > 1
        /\ IsNumber(RawValue(values[1]))) =>
           LET n == RawName(values[1])
               v == RawValue(values[1])
           IN /\ (IsFixedName(n) \/ IsNamedName(n)) =>
                    result = parseOrcaLoadReportHeaders(
                        [native |-> << Tok(n, StripAsciiWhitespace(v)) >>,
                         json |-> Absent, bin |-> Absent])
              /\ (IsFixedName(StripAsciiWhitespace(n)) /\ n # StripAsciiWhitespace(n)) =>
                    result = Failure(InvalidArgumentError("unsupported metric name"))
              /\ (IsNamedName(n) /\ n # StripAsciiWhitespace(n)) =>
                    /\ result.status.code = "Ok"
                    /\ DOMAIN result.report.named_metrics = {KeyOf(n)}

\* A fixed field name with whitespace before the colon.
C5_Witness ==
    /\ pc = "done"
    /\ OnlyNative
    /\ Len(values) = 1
    /\ Find(values[1], ":") > 1
    /\ IsNumber(RawValue(values[1]))
    /\ IsFixedName(StripAsciiWhitespace(RawName(values[1])))
    /\ RawName(values[1]) # StripAsciiWhitespace(RawName(values[1]))
    /\ result.status.code = "InvalidArgument"

\* C6: with the binary key alone, the base64 encoding of the serialization of
\* a report R gives R back; a value that is not base64, or whose bytes are not
\* a serialization, gives InvalidArgument and never a report.
C6_BinaryRoundTripOrInvalidArgument ==
    (pc = "done" /\ Present(headers) = {"bin"}) =>
        /\ \A R \in WireReports :
              headers.bin[1] = Base64Encode(SerializeAsString(R)) => result = Success(R)
        /\ (\/ ~IsBase64(headers.bin[1])
            \/ ~ParseFromString(Base64Decode(headers.bin[1]), DefaultReport).ok) =>
              result.status.code = "InvalidArgument" /\ result.report = NoReport

\* The part of C6 the code keeps: the round trip, and InvalidArgument for
\* base64 whose bytes are no serialization.
C6_RoundTrip ==
    (pc = "done" /\ Present(headers) = {"bin"}) =>
        /\ \A R \in WireReports :
              headers.bin[1] = Base64Encode(SerializeAsString(R)) => result = Success(R)
        /\ (/\ IsBase64(headers.bin[1])
            /\ ~ParseFromString(Base64Decode(headers.bin[1]), DefaultReport).ok) =>
              result.status.code = "InvalidArgument" /\ result.report = NoReport

\* C7: the assigner, given a value that is a number, puts every name in
\* exactly one of three cases. A name that starts with "named_metrics." has as
\* key all that follows the first '.': an empty key is InvalidArgument, a new
\* key is inserted with the value, a key already held is AlreadyExists. One of
\* the five fixed names sets that field and leaves the other four and
\* named_metrics as they were. Any other name is InvalidArgument. A name
\* without a value, or with a value that is no number, is InvalidArgument.
\* Every failure leaves the report as it was.
C7_AssignerCases ==
    calls > 0 =>
        LET n == call.name
            b == call.before
            a == call.after
            code == call.status.code
            key == SubSeq(n, 3, Len(n))
        IN /\ code # "Ok" => a = b
           /\ IF n = << >> \/ ~IsNumber(call.value)
              THEN code = "InvalidArgument"
              ELSE IF Len(n) >= 2 /\ n[1] = "named_metrics" /\ n[2] = "."
              THEN IF key = << >> THEN code = "InvalidArgument"
                   ELSE IF key \in DOMAIN b.named_metrics THEN code = "AlreadyExists"
                   ELSE /\ code = "Ok"
                        /\ DOMAIN a.named_metrics = DOMAIN b.named_metrics \cup {key}
                        /\ a.named_metrics[key] = NumberOf(call.value)
                        /\ \A k \in DOMAIN b.named_metrics :
                              a.named_metrics[k] = b.named_metrics[k]
                        /\ \A f \in FixedFields : a[f] = b[f]
              ELSE IF Len(n) = 1 /\ n[1] \in FixedFields
              THEN /\ code = "Ok"
                   /\ a[n[1]] = NumberOf(call.value)
                   /\ \A f \in FixedFields \ {n[1]} : a[f] = b[f]
                   /\ a.named_metrics = b.named_metrics
              ELSE code = "InvalidArgument"

\* A fixed name with a suffix, on a report that already holds a value.
C7_Witness ==
    /\ calls > 0
    /\ call.name = << "cpu_utilization", "x" >>
    /\ IsNumber(call.value)
    /\ call.before.cpu_utilization # 0
    /\ call.status.code = "InvalidArgument"
    /\ call.after = call.before

\* Token k fails: its name repeats an earlier one, or the assigner rejects it.
TokenFails(ts, k) ==
    \/ RepeatsName(ts, k)
    \/ LET e == SplitEntry(ts[k])
       IN \/ ~IsNumber(e.second)
          \/ ~(IsFixedName(e.first) \/ IsNamedName(e.first))

FirstFailing(ts) ==
    IF \E k \in 1..Len(ts) : TokenFails(ts, k)
    THEN CHOOSE k \in 1..Len(ts) :
             TokenFails(ts, k) /\ \A j \in 1..(k - 1) : ~TokenFails(ts, j)
    ELSE 0

\* C8: the plain-text decode fails fast. Tokens are examined in header
\* order; the decode stops at the first token that fails its duplicate check
\* (AlreadyExists) or its assignment (InvalidArgument) and returns that
\* error; no later token is examined; a failed call returns no report.
C8_FailFast ==
    /\ (pc = "done" /\ result.status.code # "Ok") => result.report = NoReport
    /\ (pc = "loop" /\ OnlyNative) => \A k \in 1..idx : ~TokenFails(values, k)
    /\ (pc = "done" /\ OnlyNative) =>
          IF FirstFailing(values) = 0
          THEN idx = Len(values) /\ result.status.code = "Ok"
          ELSE /\ idx = FirstFailing(values)
               /\ result.report = NoReport
               /\ result.status.code =
                      IF RepeatsName(values, idx) THEN "AlreadyExists" ELSE "InvalidArgument"

\* The first token fails and a well-formed token after it is never examined.
C8_Witness ==
    /\ pc = "done"
    /\ OnlyNative
    /\ Len(values) = 2
    /\ idx = 1
    /\ TokenFails(values, 1)
    /\ WellFormedToken(values[2])
    /\ result.status.code = "InvalidArgument"

\* C9, as stated: wherever the parser stands, some plain-text token stream
\* of the header maps it is given, with pairwise distinct token names, fails
\* with AlreadyExists in the named metric insertion.
C9_InnerCheckReachable ==
    /\ pc \in {"lookup", "native", "loop", "json", "bin", "return", "done"}
    /\ \E ts \in TokenLists, k \in 1..MaxOcc : \E c \in Cuts(Len(ts), k) :
          LET vals == parseCommaDelimitedHeader(NativeHeader(ts, k, c))
          IN /\ \A i, j \in 1..Len(vals) : i < j => TokenName(vals[i]) # TokenName(vals[j])
             /\ tryParseNativeHttpEncoded(NativeHeader(ts, k, c), DefaultReport).status
                    = AlreadyExistsError("contains duplicate named metric")

\* C9, amended: the named metric insertion check is keyed on the stripped
\* name, but in the plain-text decode the check on full token names subsumes
\* it: the keys of named_metrics are the stripped names of metric_names, so a
\* token whose key is held repeats a full name and is rejected before the
\* assigner is called. The insertion never returns AlreadyExists; the only
\* AlreadyExists of a decode is the one of the check on full names.
C9_OuterCheckSubsumesInner ==
    /\ calls > 0 => call.status.code # "AlreadyExists"
    /\ (pc = "done" /\ result.status.code = "AlreadyExists") =>
          result.status = AlreadyExistsError("contains duplicate metric")
    /\ DOMAIN load_report.named_metrics
           = {WithoutPrefix(m) : m \in {x \in metric_names : StartsWithNamedMetrics(x)}}

\* A token whose stripped key is already in named_metrics, rejected by the
\* check on full names.
C9_Witness ==
    /\ pc = "done"
    /\ idx = 2
    /\ StartsWithNamedMetrics(TokenName(values[2]))
    /\ WithoutPrefix(TokenName(values[2])) \in DOMAIN load_report.named_metrics
    /\ result.status = AlreadyExistsError("contains duplicate metric")

\* No occurrence holds anything but commas and whitespace.
NoToken(header) ==
    \A j \in 1..Len(header) : \A k \in 1..Len(header[j]) : header[j][k] \in {",", " ", "\t"}

\* C10: with the plain-text key alone and no token in any of its
\* occurrences, the call succeeds with the all-default report: not NotFound,
\* not InvalidArgument.
C10_NoTokenIsDefaultReport ==
    (pc = "done" /\ OnlyNative /\ NoToken(headers.native)) =>
        result = Success(DefaultReport)

\* An empty occurrence and an occurrence of one comma.
C10_Witness ==
    /\ pc = "done"
    /\ OnlyNative
    /\ headers.native = << << >>, << "," >> >>
    /\ result = Success(DefaultReport)

\* The returned value is the function of the header map.
ResultIsFunction == pc = "done" => result = parseOrcaLoadReportHeaders(headers)

====
